---------------------------- MODULE Spec2Model ----------------------------
(***************************************************************************)
(* Backtest simulation core of quant_backend: PositionManager (cost model, *)
(* position sizer, risk gate) and BacktestEngine (day-by-day simulation).  *)
(*                                                                         *)
(* Numbers.  The code computes in floating point; the model computes the   *)
(* same expressions in exact arithmetic.  Money is an integer number of    *)
(* 1/MoneyUnit yuan and a price an integer number of 1/PriceUnit yuan, so  *)
(* that the value of whole lots is a whole number of yuan and every fee an *)
(* integer.  Fractions in [0,1] (signal strength, position ratio, drawdown *)
(* ceiling) are integer hundredths.  A drawdown is a pair [num, den].      *)
(* Products that would leave 32 bits are computed by MulDivQR and compared *)
(* by FracLess, both exact.                                                *)
(***************************************************************************)
EXTENDS Integers, Sequences, FiniteSets, TLC

VARIABLES
    phase,               \* position of run_backtest on this engine instance
    cash,                \* self.cash
    holdings,            \* self.holdings: dict symbol -> shares
    trades,              \* self.trades
    portfolio_values,    \* self.portfolio_values
    current_date,        \* self.current_date (0 is None)
    max_portfolio_value, \* self.max_portfolio_value
    max_drawdown,        \* self.max_drawdown, a fraction [num, den]
    all_dates,           \* run_backtest's local all_dates
    symbol_order,        \* signals_data's keys in mapping (insertion) order
    today,               \* signals_data restricted to the date being processed
    todo,                \* symbols the signal loop of the date has still to visit
    last_close,          \* history: each symbol's most recent close seen so far
    result,              \* what the last run_backtest call returned
    probe,               \* a call of a pure PositionManager method: inputs, output
    manager,             \* the PositionManager instance handed to run_backtest
    restarted,           \* history: the run at its start is a later run of its instance
    plan,                \* the rows of the run by date when they are fixed up front
    other,               \* a second engine and its plan, while this one is stepping
    benchmark_data,      \* run_backtest's benchmark_data argument
    controller           \* QuantTradingBackend.run_complete_backtest: position and result

vars == <<phase, cash, holdings, trades, portfolio_values, current_date,
          max_portfolio_value, max_drawdown, all_dates, symbol_order, today,
          todo, last_close, result, probe, manager, restarted, plan, other,
          benchmark_data, controller>>

engine_vars == <<phase, cash, holdings, trades, portfolio_values, current_date,
                 max_portfolio_value, max_drawdown, all_dates, symbol_order,
                 today, todo, last_close, result>>

\* what surrounds the engine: the manager it is handed, the instance's history,
\* the inputs fixed up front and the engine beside it
world_vars == <<manager, restarted, plan, other, benchmark_data, controller>>

---------------------------------------------------------------------------
\* Scales, fee schedule and configuration

MoneyUnit == 50000

\* prices are quoted to the hundredth of a yuan
PriceUnit == 100

\* shares * price in yuan
TradeValue(shares, price) == (shares * price) \div PriceUnit

commission_rate == 15

stamp_tax == 50

transfer_fee == 1

min_commission == 5

LotSize == 100

DefaultMaxDrawdown == 10

DefaultMaxPositionRatio == 95

InitialCash == 1000

MaxDates == 3

Symbols == {"A", "B"}

Prices == {2 * PriceUnit, 3 * PriceUnit}

Strengths == {50, 150}

initial_cash == InitialCash * MoneyUnit

position_manager ==
    [initial_cash       |-> initial_cash,
     max_drawdown       |-> DefaultMaxDrawdown,
     max_position_ratio |-> DefaultMaxPositionRatio]

---------------------------------------------------------------------------
\* Exact arithmetic helpers

Max(a, b) == IF a >= b THEN a ELSE b

Last(s) == s[Len(s)]

EmptyMap == [s \in {} |-> 0]

RECURSIVE MulDivQR(_, _, _)
\* <<floor(x*a/b), (x*a) mod b>> for x, a >= 0 and b > 0, by doubling on a
MulDivQR(x, a, b) ==
    IF a = 0 THEN <<0, 0>>
    ELSE LET Step(h) ==
                 LET r == 2 * h[2] + (IF a % 2 = 1 THEN x % b ELSE 0)
                 IN  << 2 * h[1] + (IF a % 2 = 1 THEN x \div b ELSE 0) + r \div b,
                        r % b >>
         IN  Step(MulDivQR(x, a \div 2, b))

RECURSIVE FracLess(_, _, _, _)
\* a/b < c/d for a, c >= 0 and b, d > 0, by the Euclidean expansion
FracLess(a, b, c, d) ==
    LET qa == a \div b
        qc == c \div d
        ra == a % b
        rc == c % d
    IN  IF qa # qc THEN qa < qc
        ELSE IF rc = 0 THEN FALSE
        ELSE IF ra = 0 THEN TRUE
        ELSE FracLess(d, rc, b, ra)

\* x > y for fractions [num, den] with den > 0 (a negative numerator allowed)
FracGT(x, y) ==
    IF y.num < 0
    THEN IF x.num >= 0 THEN TRUE ELSE FracLess(-y.num, y.den, -x.num, x.den)
    ELSE IF x.num < 0 THEN FALSE ELSE FracLess(y.num, y.den, x.num, x.den)

---------------------------------------------------------------------------
\* PositionManager (strategy_module.py)

\* int(num / den) of Python: truncation toward zero
Trunc(num, den) == IF num >= 0 THEN num \div den ELSE -((-num) \div den)

\* the sizer without the minimum-commission deduction
calculate_position_size_no_min_commission(pm, current_value, price, signal_strength) ==
    LET net == MulDivQR(current_value,
                        pm.max_position_ratio * signal_strength
                            * (MoneyUnit - commission_rate - transfer_fee),
                        100 * 100 * MoneyUnit)[1]
        shares == Trunc(net, TradeValue(LotSize, price) * MoneyUnit) * LotSize
    IN  Max(0, shares)

\* current_value in money units, price in price units, signal_strength in hundredths
calculate_position_size(pm, current_value, price, signal_strength) ==
    LET \* base_position * (1 - commission_rate - transfer_fee), floored to a unit
        net == MulDivQR(current_value,
                        pm.max_position_ratio * signal_strength
                            * (MoneyUnit - commission_rate - transfer_fee),
                        100 * 100 * MoneyUnit)[1]
        available_cash == net - min_commission * MoneyUnit
        shares == Trunc(available_cash, TradeValue(LotSize, price) * MoneyUnit) * LotSize
    IN  Max(0, shares)

\* the cost model with the stamp tax charged on the wrong side
calculate_trade_cost_stamp_on_buy(shares, price, is_buy) ==
    LET trade_value == TradeValue(shares, price)
        commission == Max(trade_value * commission_rate, min_commission * MoneyUnit)
        transfer == trade_value * transfer_fee
        stamp == IF is_buy THEN trade_value * stamp_tax ELSE 0
    IN  commission + transfer + stamp

\* shares and a price in price units give the cost in money units
calculate_trade_cost(shares, price, is_buy) ==
    LET trade_value == TradeValue(shares, price)
        commission == Max(trade_value * commission_rate, min_commission * MoneyUnit)
        transfer == trade_value * transfer_fee
        stamp == IF ~is_buy THEN trade_value * stamp_tax ELSE 0
    IN  commission + transfer + stamp

\* a gate that rejects a drawdown equal to the ceiling
check_risk_control_at_equality(pm, current_value) ==
    LET current_drawdown == [num |-> pm.initial_cash - current_value,
                             den |-> pm.initial_cash]
    IN  IF ~FracGT([num |-> pm.max_drawdown, den |-> 100], current_drawdown)
        THEN FALSE
        ELSE TRUE

\* a gate that stays shut once the engine's running max drawdown passed the ceiling
check_risk_control_latched(pm, current_value) ==
    LET current_drawdown == [num |-> pm.initial_cash - current_value,
                             den |-> pm.initial_cash]
        ceiling == [num |-> pm.max_drawdown, den |-> 100]
    IN  IF FracGT(max_drawdown, ceiling) \/ FracGT(current_drawdown, ceiling)
        THEN FALSE
        ELSE TRUE

\* a gate that vetoes on any loss against the initial capital
check_risk_control_any_loss(pm, current_value) ==
    current_value >= pm.initial_cash

check_risk_control(pm, current_value) ==
    LET current_drawdown == [num |-> pm.initial_cash - current_value,
                             den |-> pm.initial_cash]
    IN  IF FracGT(current_drawdown, [num |-> pm.max_drawdown, den |-> 100])
        THEN FALSE
        ELSE TRUE

---------------------------------------------------------------------------
\* BacktestEngine (backtest_module.py)

\* the run state the order handlers read and write
Self == [cash |-> cash, holdings |-> holdings, trades |-> trades]

Holding(h, symbol) == IF symbol \in DOMAIN h THEN h[symbol] ELSE 0

Put(h, symbol, shares) ==
    [s \in DOMAIN h \cup {symbol} |-> IF s = symbol THEN shares ELSE h[s]]

Range(seq) == {seq[i] : i \in DOMAIN seq}

RECURSIVE HoldingsValue(_, _, _)
\* sum of shares * close over the symbols of S that are held and have a bar in rows
HoldingsValue(S, h, rows) ==
    IF S = {} THEN 0
    ELSE LET symbol == CHOOSE s \in S : TRUE
             shares == h[symbol]
         IN  (IF shares > 0 /\ symbol \in DOMAIN rows
              THEN TradeValue(shares, rows[symbol].close) * MoneyUnit
              ELSE 0)
             + HoldingsValue(S \ {symbol}, h, rows)

RECURSIVE Sorted(_)
\* sorted(list(S)): the elements of a set of dates in ascending order
Sorted(S) ==
    IF S = {} THEN <<>>
    ELSE LET least == CHOOSE d \in S : \A e \in S : d <= e
         IN  <<least>> \o Sorted(S \ {least})

RECURSIVE Concat(_)
Concat(seqs) == IF seqs = <<>> THEN <<>> ELSE Head(seqs) \o Concat(Tail(seqs))

\* the dates collected in a list, frame after frame, neither merged nor sorted
get_all_trading_dates_listed(indexes) == Concat(indexes)

\* indexes: data.index.tolist() of each frame of signals_data, in mapping order
\* (an empty frame has an empty index and adds nothing)
get_all_trading_dates(indexes) ==
    Sorted(UNION {Range(indexes[k]) : k \in DOMAIN indexes})

\* rows: signals_data at the date, restricted to the symbols with a bar on it
calculate_portfolio_value(self, order, rows) ==
    self.cash + HoldingsValue(DOMAIN self.holdings \cap Range(order), self.holdings, rows)

\* a peak that stays where the run started
update_max_portfolio_value_frozen(peak, portfolio_value) == peak

update_max_portfolio_value(peak, portfolio_value) ==
    IF portfolio_value > peak THEN portfolio_value ELSE peak

\* the running max drawdown overwritten by the date's drawdown
update_max_drawdown_current(mdd, peak, portfolio_value) ==
    [num |-> peak - portfolio_value, den |-> peak]

update_max_drawdown(mdd, peak, portfolio_value) ==
    LET current_drawdown == [num |-> peak - portfolio_value, den |-> peak]
    IN  IF FracGT(current_drawdown, mdd) THEN current_drawdown ELSE mdd

\* a BUY that debits the trade value and forgets the trade cost
Bought_cost_free(self, symbol, price, signal_strength, date, shares, trade_cost, total_cost) ==
    [cash     |-> self.cash - TradeValue(shares, price) * MoneyUnit,
     holdings |-> Put(self.holdings, symbol, Holding(self.holdings, symbol) + shares),
     trades   |-> Append(self.trades,
         [date |-> date, symbol |-> symbol, action |-> "BUY",
          shares |-> shares, price |-> price,
          trade_value |-> TradeValue(shares, price) * MoneyUnit,
          trade_cost |-> trade_cost, total_cost |-> total_cost,
          signal_strength |-> signal_strength,
          cash_after |-> self.cash - TradeValue(shares, price) * MoneyUnit])]

\* the record a BUY appends and the state it leaves
\* a BUY whose record stores the balance before the trade
Bought_stale_balance(self, symbol, price, signal_strength, date, shares, trade_cost, total_cost) ==
    [cash     |-> self.cash - total_cost,
     holdings |-> Put(self.holdings, symbol, Holding(self.holdings, symbol) + shares),
     trades   |-> Append(self.trades,
         [date |-> date, symbol |-> symbol, action |-> "BUY",
          shares |-> shares, price |-> price,
          trade_value |-> TradeValue(shares, price) * MoneyUnit,
          trade_cost |-> trade_cost, total_cost |-> total_cost,
          signal_strength |-> signal_strength,
          cash_after |-> self.cash])]

Bought(self, symbol, price, signal_strength, date, shares, trade_cost, total_cost) ==
    [cash     |-> self.cash - total_cost,
     holdings |-> Put(self.holdings, symbol, Holding(self.holdings, symbol) + shares),
     trades   |-> Append(self.trades,
         [date |-> date, symbol |-> symbol, action |-> "BUY",
          shares |-> shares, price |-> price,
          trade_value |-> TradeValue(shares, price) * MoneyUnit,
          trade_cost |-> trade_cost, total_cost |-> total_cost,
          signal_strength |-> signal_strength,
          cash_after |-> self.cash - total_cost])]

\* a BUY without the check of total_cost against cash
execute_buy_order_unchecked(self, symbol, price, signal_strength, pm, date) ==
    IF symbol \in DOMAIN self.holdings /\ self.holdings[symbol] > 0 THEN self
    ELSE
    LET current_value == self.cash
        shares == calculate_position_size(pm, current_value, price, signal_strength)
        trade_cost == calculate_trade_cost(shares, price, TRUE)
        total_cost == TradeValue(shares, price) * MoneyUnit + trade_cost
    IN  IF shares <= 0 THEN self
        ELSE Bought(self, symbol, price, signal_strength, date, shares,
                    trade_cost, total_cost)

\* a BUY that adds to an existing holding
execute_buy_order_averaging(self, symbol, price, signal_strength, pm, date) ==
    LET current_value == self.cash
        shares == calculate_position_size(pm, current_value, price, signal_strength)
        trade_cost == calculate_trade_cost(shares, price, TRUE)
        total_cost == TradeValue(shares, price) * MoneyUnit + trade_cost
    IN  IF shares <= 0 THEN self
        ELSE IF total_cost > self.cash THEN self
        ELSE Bought(self, symbol, price, signal_strength, date, shares,
                    trade_cost, total_cost)

execute_buy_order(self, symbol, price, signal_strength, pm, date) ==
    IF symbol \in DOMAIN self.holdings /\ self.holdings[symbol] > 0 THEN self
    ELSE
    LET current_value == self.cash
        shares == calculate_position_size(pm, current_value, price, signal_strength)
        trade_cost == calculate_trade_cost(shares, price, TRUE)
        total_cost == TradeValue(shares, price) * MoneyUnit + trade_cost
    IN  IF shares <= 0 THEN self
        ELSE IF total_cost > self.cash THEN self
        ELSE Bought(self, symbol, price, signal_strength, date, shares,
                    trade_cost, total_cost)

\* a SELL that credits the trade value and forgets the trade cost
Sold_gross(self, symbol, price, signal_strength, date, shares) ==
    LET trade_cost == calculate_trade_cost(shares, price, FALSE)
        trade_value == TradeValue(shares, price) * MoneyUnit
    IN  [cash     |-> self.cash + trade_value,
         holdings |-> Put(self.holdings, symbol, 0),
         trades   |-> Append(self.trades,
             [date |-> date, symbol |-> symbol, action |-> "SELL",
              shares |-> shares, price |-> price,
              trade_value |-> trade_value,
              trade_cost |-> trade_cost, net_proceeds |-> trade_value,
              signal_strength |-> signal_strength,
              cash_after |-> self.cash + trade_value])]

\* a SELL of one lot that leaves the rest of the position in place
Sold_one_lot(self, symbol, price, signal_strength, date, shares) ==
    LET trade_cost == calculate_trade_cost(LotSize, price, FALSE)
        trade_value == TradeValue(LotSize, price) * MoneyUnit
        net_proceeds == trade_value - trade_cost
    IN  [cash     |-> self.cash + net_proceeds,
         holdings |-> Put(self.holdings, symbol, shares - LotSize),
         trades   |-> Append(self.trades,
             [date |-> date, symbol |-> symbol, action |-> "SELL",
              shares |-> LotSize, price |-> price,
              trade_value |-> trade_value,
              trade_cost |-> trade_cost, net_proceeds |-> net_proceeds,
              signal_strength |-> signal_strength,
              cash_after |-> self.cash + net_proceeds])]

\* the record a SELL appends and the state it leaves
Sold(self, symbol, price, signal_strength, date, shares) ==
    LET trade_cost == calculate_trade_cost(shares, price, FALSE)
        trade_value == TradeValue(shares, price) * MoneyUnit
        net_proceeds == trade_value - trade_cost
    IN  [cash     |-> self.cash + net_proceeds,
         holdings |-> Put(self.holdings, symbol, 0),
         trades   |-> Append(self.trades,
             [date |-> date, symbol |-> symbol, action |-> "SELL",
              shares |-> shares, price |-> price,
              trade_value |-> trade_value,
              trade_cost |-> trade_cost, net_proceeds |-> net_proceeds,
              signal_strength |-> signal_strength,
              cash_after |-> self.cash + net_proceeds])]

\* a SELL without the check that the symbol is held
execute_sell_order_unguarded(self, symbol, price, signal_strength, pm, date) ==
    Sold(self, symbol, price, signal_strength, date, Holding(self.holdings, symbol))

execute_sell_order(self, symbol, price, signal_strength, pm, date) ==
    IF symbol \notin DOMAIN self.holdings \/ self.holdings[symbol] <= 0 THEN self
    ELSE Sold(self, symbol, price, signal_strength, date, self.holdings[symbol])

\* reading and testing the row's signal raises: KeyError from data.loc when the
\* frame has no signal column, TypeError from `if signal == 0` when the value is
\* missing (pd.NA); a row without a signal field stands for both
signal_lookup_raises(symbol, rows) ==
    symbol \in DOMAIN rows /\ "signal" \notin DOMAIN rows[symbol]

\* _execute_buy_order raises: the sizer, reached when the symbol is not held,
\* divides by a price of 0 and converts the quotient (inf or nan) with int()
execute_buy_order_raises(self, symbol, price) ==
    /\ ~(symbol \in DOMAIN self.holdings /\ self.holdings[symbol] > 0)
    /\ price = 0

\* one iteration of the loop over signals_data.items(); an exception of an
\* order handler is caught in the loop and the loop continues
process_trading_signal(self, symbol, rows, pm, date) ==
    IF symbol \notin DOMAIN rows THEN self
    ELSE LET signal == rows[symbol].signal
             signal_strength == rows[symbol].signal_strength
             current_price == rows[symbol].close
         IN  IF signal = 0 THEN self
             ELSE IF signal = 1
                  THEN IF execute_buy_order_raises(self, symbol, current_price)
                       THEN self
                       ELSE execute_buy_order(self, symbol, current_price,
                                              signal_strength, pm, date)
             ELSE IF signal = -1
                  THEN execute_sell_order(self, symbol, current_price,
                                          signal_strength, pm, date)
             ELSE self

\* a gate that keeps its high-water mark in the manager, as the drawdown baseline
pm_after_risk_control_tracking(pm, current_value) ==
    [pm EXCEPT !.initial_cash = Max(pm.initial_cash, current_value)]

\* the manager after check_risk_control(portfolio_value) returned: the method
\* reads self.initial_cash and self.max_drawdown and assigns no attribute
pm_after_risk_control(pm, current_value) == pm

\* the signal loop entered whatever the gate says
gated_symbols_ungated(pm, portfolio_value, order) == order

\* _process_trading_day after the snapshot: the symbols its signal loop will
\* visit, none when the risk gate vetoes the date
gated_symbols(pm, portfolio_value, order) ==
    IF ~check_risk_control(pm, portfolio_value) THEN <<>> ELSE order

NoResult == [success |-> FALSE, returned |-> FALSE]

\* an error report that keeps what the interrupted run had reached
generate_error_report_partial(error_message) ==
    [returned |-> TRUE, success |-> FALSE, error |-> error_message,
     summary |-> [initial_cash |-> initial_cash,
                  final_value |-> IF portfolio_values = <<>> THEN initial_cash
                                  ELSE Last(portfolio_values).portfolio_value,
                  total_return |-> 0,
                  max_drawdown |-> max_drawdown,
                  trading_days |-> Len(portfolio_values)],
     trade_statistics |-> [total_trades |-> Len(trades), completed_trades |-> 0],
     portfolio_history |-> portfolio_values,
     trades |-> trades]

generate_error_report(error_message) ==
    [returned |-> TRUE, success |-> FALSE, error |-> error_message,
     summary |-> [initial_cash |-> initial_cash, final_value |-> initial_cash,
                  total_return |-> 0,
                  max_drawdown |-> [num |-> 0, den |-> 1], trading_days |-> 0],
     trade_statistics |-> [total_trades |-> 0, completed_trades |-> 0]]

\* benchmark_data = None
NoBenchmark == [kind |-> "none"]

\* the dates of the equity curve (portfolio_df's index)
CurveDates(history) == {history[i].date : i \in DOMAIN history}

\* the snapshot of a date of the curve
SnapshotOn(history, date) ==
    history[CHOOSE i \in DOMAIN history : history[i].date = date]

SetMin(S) == CHOOSE x \in S : \A y \in S : x <= y

SetMax(S) == CHOOSE x \in S : \A y \in S : x >= y

\* a comparison that counts the benchmark's own dates as tracked
calculate_benchmark_comparison_whole_index(history, benchmark) ==
    IF benchmark = NoBenchmark \/ benchmark.index = {}
    THEN [available |-> FALSE, reason |-> "no benchmark data"]
    ELSE [available |-> TRUE, tracking_days |-> Cardinality(benchmark.index)]

\* a benchmark frame is [index |-> its dates, close |-> date -> close]; a frame
\* without a close column raises inside the try and takes the except branch.
\* Returns are fractions [num, den]; beta is left out.
calculate_benchmark_comparison(history, benchmark) ==
    IF benchmark = NoBenchmark \/ benchmark.index = {}
    THEN [available |-> FALSE, reason |-> "no benchmark data"]
    ELSE LET common_dates == CurveDates(history) \cap benchmark.index
         IN  IF common_dates = {}
             THEN [available |-> FALSE, reason |-> "benchmark dates do not match"]
             ELSE IF "close" \notin DOMAIN benchmark
             THEN [available |-> FALSE, reason |-> "benchmark comparison failed"]
             ELSE LET first == SetMin(common_dates)
                      last == SetMax(common_dates)
                      benchmark_initial == benchmark.close[first]
                      benchmark_final == benchmark.close[last]
                      portfolio_initial == SnapshotOn(history, first).portfolio_value
                      portfolio_final == SnapshotOn(history, last).portfolio_value
                  IN  [available |-> TRUE,
                       benchmark_return |-> [num |-> benchmark_final - benchmark_initial,
                                             den |-> benchmark_initial],
                       portfolio_return |-> [num |-> portfolio_final - portfolio_initial,
                                             den |-> portfolio_initial],
                       tracking_days |-> Cardinality(common_dates)]

\* the records of one side, or of one symbol, in ledger order
TradesOfAction(ledger, action) ==
    LET Test(t) == t.action = action IN SelectSeq(ledger, Test)

TradesOfSymbol(ledger, symbol) ==
    LET Test(t) == t.symbol = symbol IN SelectSeq(ledger, Test)

RECURSIVE SumCosts(_)
SumCosts(ledger) ==
    IF ledger = <<>> THEN 0 ELSE Head(ledger).trade_cost + SumCosts(Tail(ledger))

RECURSIVE WalkSymbolTrades(_, _)
\* the loop over one symbol's records: a BUY sets buy_price, a SELL met with
\* buy_price > 0 books (price - buy_price) * shares - trade_cost and clears it;
\* the result is [profitable_trades, total_profit]
WalkSymbolTrades(symbol_trades, buy_price) ==
    IF symbol_trades = <<>> THEN [profitable_trades |-> 0, total_profit |-> 0]
    ELSE LET trade == Head(symbol_trades)
         IN  IF trade.action = "BUY"
             THEN WalkSymbolTrades(Tail(symbol_trades), trade.price)
             ELSE IF trade.action = "SELL" /\ buy_price > 0
             THEN LET profit == TradeValue(trade.shares, trade.price - buy_price)
                                    * MoneyUnit - trade.trade_cost
                      rest == WalkSymbolTrades(Tail(symbol_trades), 0)
                  IN  [profitable_trades |->
                           rest.profitable_trades + (IF profit > 0 THEN 1 ELSE 0),
                       total_profit |-> rest.total_profit + profit]
             ELSE WalkSymbolTrades(Tail(symbol_trades), buy_price)

RECURSIVE WalkTrades(_, _)
\* the walk summed over a set of symbols
WalkTrades(ledger, S) ==
    IF S = {} THEN [profitable_trades |-> 0, total_profit |-> 0]
    ELSE LET symbol == CHOOSE x \in S : TRUE
             here == WalkSymbolTrades(TradesOfSymbol(ledger, symbol), 0)
             rest == WalkTrades(ledger, S \ {symbol})
         IN  [profitable_trades |-> here.profitable_trades + rest.profitable_trades,
              total_profit |-> here.total_profit + rest.total_profit]

\* win_rate and avg_profit_per_trade are fractions [num, den]; an empty ledger
\* returns the early dictionary, which has neither completed_trades nor
\* total_profit
calculate_trade_statistics(ledger) ==
    IF ledger = <<>>
    THEN [total_trades |-> 0, buy_trades |-> 0, sell_trades |-> 0,
          total_costs |-> 0, profitable_trades |-> 0,
          win_rate |-> [num |-> 0, den |-> 1],
          avg_profit_per_trade |-> [num |-> 0, den |-> 1]]
    ELSE LET buy_trades == TradesOfAction(ledger, "BUY")
             sell_trades == TradesOfAction(ledger, "SELL")
             walk == WalkTrades(ledger, {ledger[i].symbol : i \in DOMAIN ledger})
             completed_trades == Len(sell_trades)
         IN  [total_trades |-> Len(ledger),
              buy_trades |-> Len(buy_trades),
              sell_trades |-> Len(sell_trades),
              completed_trades |-> completed_trades,
              total_costs |-> SumCosts(ledger),
              profitable_trades |-> walk.profitable_trades,
              win_rate |-> IF completed_trades > 0
                           THEN [num |-> walk.profitable_trades * 100,
                                 den |-> completed_trades]
                           ELSE [num |-> 0, den |-> 1],
              avg_profit_per_trade |-> IF completed_trades > 0
                                       THEN [num |-> walk.total_profit,
                                             den |-> completed_trades]
                                       ELSE [num |-> 0, den |-> 1],
              total_profit |-> walk.total_profit]

generate_backtest_report ==
    IF portfolio_values = <<>>
    THEN generate_error_report("no portfolio values")
    ELSE
    [returned |-> TRUE, success |-> TRUE,
     summary |-> [initial_cash |-> initial_cash,
                  final_value |-> Last(portfolio_values).portfolio_value,
                  total_return |->
                      [num |-> Last(portfolio_values).portfolio_value - initial_cash,
                       den |-> initial_cash],
                  max_drawdown |-> max_drawdown,
                  trading_days |-> Len(portfolio_values)],
     trade_statistics |-> calculate_trade_statistics(trades),
     benchmark_comparison |->
         calculate_benchmark_comparison(portfolio_values, benchmark_data),
     portfolio_history |-> portfolio_values,
     trades |-> trades,
     holdings |-> [s \in {x \in DOMAIN holdings : holdings[x] > 0} |-> holdings[s]]]

---------------------------------------------------------------------------
\* Inputs of a run

\* the rows a frame can hold on a date: a HOLD row carries strength 0
Rows ==
    {[close |-> p, signal |-> 0, signal_strength |-> 0] : p \in Prices}
    \cup {[close |-> p, signal |-> -1, signal_strength |-> 100] : p \in Prices}
    \cup {[close |-> p, signal |-> 1, signal_strength |-> s] :
              p \in Prices, s \in Strengths}

\* signals_data.keys() in mapping order: every ordering of every subset of Symbols
SymbolOrders ==
    {<<>>} \cup {<<a>> : a \in Symbols}
    \cup {p \in Symbols \X Symbols : p[1] # p[2]}

NoProbe == [kind |-> "none"]

\* no second engine
NoOther == [phase |-> "NONE"]

\* no run_complete_backtest call is under way
NoController == [pc |-> "none"]

---------------------------------------------------------------------------
\* Actions

\* a reset that clears the ledger and the curve and keeps cash and holdings
ResetState_keeping_position ==
    /\ UNCHANGED <<cash, holdings>>
    /\ trades' = <<>>
    /\ portfolio_values' = <<>>
    /\ current_date' = 0
    /\ max_portfolio_value' = initial_cash
    /\ max_drawdown' = [num |-> 0, den |-> 1]

\* a reset that empties the position and the records and leaves cash as it is
ResetState_keeping_cash ==
    /\ UNCHANGED cash
    /\ holdings' = EmptyMap
    /\ trades' = <<>>
    /\ portfolio_values' = <<>>
    /\ current_date' = 0
    /\ max_portfolio_value' = initial_cash
    /\ max_drawdown' = [num |-> 0, den |-> 1]

\* run_backtest goes on with whatever dates it found
raises_no_trading_dates_never(dates) == FALSE

\* run_backtest: `if not all_dates: raise ValueError`
raises_no_trading_dates(dates) == dates = <<>>

\* BacktestEngine.__init__ / reset_state
ResetState ==
    /\ cash' = initial_cash
    /\ holdings' = EmptyMap
    /\ trades' = <<>>
    /\ portfolio_values' = <<>>
    /\ current_date' = 0
    /\ max_portfolio_value' = initial_cash
    /\ max_drawdown' = [num |-> 0, den |-> 1]

Init ==
    /\ phase = "INITIALIZED"
    /\ cash = initial_cash
    /\ holdings = EmptyMap
    /\ trades = <<>>
    /\ portfolio_values = <<>>
    /\ current_date = 0
    /\ max_portfolio_value = initial_cash
    /\ max_drawdown = [num |-> 0, den |-> 1]
    /\ all_dates = <<>>
    /\ symbol_order = <<>>
    /\ today = EmptyMap
    /\ todo = <<>>
    /\ last_close = EmptyMap
    /\ result = NoResult
    /\ manager = position_manager
    /\ restarted = FALSE
    /\ plan = <<>>
    /\ other = NoOther
    /\ benchmark_data = NoBenchmark
    /\ controller = NoController
    /\ probe = NoProbe

\* BacktestModule.execute_backtest builds a fresh engine for every call
Construct ==
    /\ phase \in {"COMPLETED", "FAILED"}
    /\ phase' = "INITIALIZED"
    /\ ResetState
    /\ all_dates' = <<>>
    /\ symbol_order' = <<>>
    /\ today' = EmptyMap
    /\ todo' = <<>>
    /\ last_close' = EmptyMap
    /\ result' = NoResult
    /\ restarted' = FALSE
    /\ UNCHANGED <<probe, manager, plan, other, benchmark_data, controller>>

\* run_backtest up to the per-date loop; n is the number of distinct dates of
\* signals_data (dates are numbered 1..n in ascending order)
RunBacktest(order, n) ==
    /\ phase \in {"INITIALIZED", "COMPLETED", "FAILED"}
    /\ (order = <<>>) => (n = 0)
    /\ ResetState
    /\ symbol_order' = order
    /\ today' = EmptyMap
    /\ todo' = <<>>
    /\ last_close' = EmptyMap
    /\ all_dates' = [i \in 1..n |-> i]
    /\ IF raises_no_trading_dates(all_dates')
       THEN /\ phase' = "FAILED"
            /\ result' = generate_error_report("no trading dates")
       ELSE /\ phase' = "RUNNING"
            /\ result' = NoResult
    /\ restarted' = (phase # "INITIALIZED")
    /\ UNCHANGED <<probe, manager, plan, other, benchmark_data, controller>>

\* _process_trading_day up to the signal loop, for the next date of all_dates
ProcessTradingDay(rows) ==
    /\ phase = "RUNNING"
    /\ todo = <<>>
    /\ current_date < Len(all_dates)
    /\ DOMAIN rows \subseteq Range(symbol_order)
    /\ LET date == all_dates[current_date + 1]
           portfolio_value == calculate_portfolio_value(Self, symbol_order, rows)
           peak == update_max_portfolio_value(max_portfolio_value, portfolio_value)
       IN  /\ current_date' = date
           /\ portfolio_values' = Append(portfolio_values,
                  [date |-> date, portfolio_value |-> portfolio_value,
                   cash |-> cash, holdings_value |-> portfolio_value - cash])
           /\ max_portfolio_value' = peak
           /\ max_drawdown' = update_max_drawdown(max_drawdown, peak, portfolio_value)
           /\ todo' = gated_symbols(manager, portfolio_value, symbol_order)
           /\ today' = IF todo' = <<>> THEN EmptyMap ELSE rows
           /\ manager' = pm_after_risk_control(manager, portfolio_value)
    /\ restarted' = FALSE
    /\ last_close' = [s \in DOMAIN last_close \cup DOMAIN rows |->
                         IF s \in DOMAIN rows THEN rows[s].close ELSE last_close[s]]
    /\ UNCHANGED <<phase, cash, holdings, trades, all_dates, symbol_order,
                   result, probe, plan, other, benchmark_data, controller>>

\* _process_trading_signals: the next iteration of its loop; an exception
\* raised outside the loop's try leaves the per-date loop and run_backtest
\* returns the error report, the run state staying as the exception found it
ProcessTradingSignal ==
    /\ phase = "RUNNING"
    /\ todo # <<>>
    /\ IF signal_lookup_raises(Head(todo), today)
       THEN /\ phase' = "FAILED"
            /\ result' = generate_error_report("signal")
            /\ todo' = <<>>
            /\ today' = EmptyMap
            /\ UNCHANGED <<cash, holdings, trades>>
       ELSE /\ LET after == process_trading_signal(Self, Head(todo), today,
                                                   manager, current_date)
               IN  /\ cash' = after.cash
                   /\ holdings' = after.holdings
                   /\ trades' = after.trades
            /\ todo' = Tail(todo)
            /\ today' = IF Tail(todo) = <<>> THEN EmptyMap ELSE today
            /\ UNCHANGED <<phase, result>>
    /\ UNCHANGED <<portfolio_values, current_date, max_portfolio_value,
                   max_drawdown, all_dates, symbol_order, last_close,
                   probe, manager, restarted, plan, other, benchmark_data,
                   controller>>

\* run_backtest after the last date: the report is generated and returned
Finish ==
    /\ phase = "RUNNING"
    /\ todo = <<>>
    /\ current_date = Len(all_dates)
    /\ result' = generate_backtest_report
    /\ phase' = IF result'.success THEN "COMPLETED" ELSE "FAILED"
    /\ UNCHANGED <<cash, holdings, trades, portfolio_values, current_date,
                   max_portfolio_value, max_drawdown, all_dates, symbol_order,
                   today, todo, last_close, probe, manager, restarted, plan, other,
                   benchmark_data, controller>>

Next ==
    \/ Construct
    \/ \E order \in SymbolOrders, n \in 0..MaxDates : RunBacktest(order, n)
    \/ \E S \in (SUBSET Symbols) \ {{}} : \E rows \in [S -> Rows] :
           ProcessTradingDay(rows)
    \/ ProcessTradingSignal
    \/ Finish

Spec == Init /\ [][Next]_vars

---------------------------------------------------------------------------
\* Runs over frames with faults: closes of 0 and rows whose signal is missing

FaultRows ==
    {[close |-> 2 * PriceUnit, signal |-> 1, signal_strength |-> 50],
     [close |-> 3 * PriceUnit, signal |-> 0, signal_strength |-> 0],
     [close |-> 3 * PriceUnit, signal |-> -1, signal_strength |-> 100]}
    \cup {[close |-> 0, signal |-> g, signal_strength |-> 50] : g \in {-1, 0, 1}}
    \cup {[close |-> 2 * PriceUnit, signal_strength |-> 50]}

FaultNext ==
    \/ Construct
    \/ \E order \in SymbolOrders, n \in 0..MaxDates : RunBacktest(order, n)
    \/ \E S \in (SUBSET Symbols) \ {{}} : \E rows \in [S -> FaultRows] :
           ProcessTradingDay(rows)
    \/ ProcessTradingSignal
    \/ Finish

FaultSpec == Init /\ [][FaultNext]_vars

---------------------------------------------------------------------------
\* Runs with the manager built from any strategy_config, valid or not

\* StrategyModule.__init__: PositionManager(max_drawdown = config's max_drawdown,
\* max_position_ratio = config's position_size), in hundredths
Configs ==
    {[initial_cash       |-> initial_cash,
      max_drawdown       |-> d,
      max_position_ratio |-> r] :
        d \in {DefaultMaxDrawdown, 150}, r \in {DefaultMaxPositionRatio, 150}}

ConfigInit ==
    /\ phase = "INITIALIZED"
    /\ cash = initial_cash
    /\ holdings = EmptyMap
    /\ trades = <<>>
    /\ portfolio_values = <<>>
    /\ current_date = 0
    /\ max_portfolio_value = initial_cash
    /\ max_drawdown = [num |-> 0, den |-> 1]
    /\ all_dates = <<>>
    /\ symbol_order = <<>>
    /\ today = EmptyMap
    /\ todo = <<>>
    /\ last_close = EmptyMap
    /\ result = NoResult
    /\ manager \in Configs
    /\ restarted = FALSE
    /\ plan = <<>>
    /\ other = NoOther
    /\ benchmark_data = NoBenchmark
    /\ controller = NoController
    /\ probe = NoProbe

ConfigSpec == ConfigInit /\ [][Next]_vars

---------------------------------------------------------------------------
\* Two engines, one manager: each engine runs once over rows fixed up front and
\* their steps interleave.  The engine variables hold the engine that is
\* stepping; `other` holds the engine that is waiting.

MaxPlanDates == 2

PlanRows ==
    {[close |-> 2 * PriceUnit, signal |-> 1, signal_strength |-> 50],
     [close |-> 3 * PriceUnit, signal |-> 0, signal_strength |-> 0],
     [close |-> 2 * PriceUnit, signal |-> -1, signal_strength |-> 100]}

\* signals_data of a run, by date: one instrument with a bar on every date
Plans == UNION {[1..n -> [{"A"} -> PlanRows]] : n \in 1..MaxPlanDates}

\* the engine in the engine variables, named id, set aside
Parked(id) ==
    [id |-> id, phase |-> phase, cash |-> cash, holdings |-> holdings,
     trades |-> trades, portfolio_values |-> portfolio_values,
     current_date |-> current_date, max_portfolio_value |-> max_portfolio_value,
     max_drawdown |-> max_drawdown, all_dates |-> all_dates,
     symbol_order |-> symbol_order, today |-> today, todo |-> todo,
     last_close |-> last_close, result |-> result, plan |-> plan]

TwoInit ==
    /\ phase = "INITIALIZED"
    /\ cash = initial_cash
    /\ holdings = EmptyMap
    /\ trades = <<>>
    /\ portfolio_values = <<>>
    /\ current_date = 0
    /\ max_portfolio_value = initial_cash
    /\ max_drawdown = [num |-> 0, den |-> 1]
    /\ all_dates = <<>>
    /\ symbol_order = <<>>
    /\ today = EmptyMap
    /\ todo = <<>>
    /\ last_close = EmptyMap
    /\ result = NoResult
    /\ manager = position_manager
    /\ restarted = FALSE
    /\ plan \in Plans
    /\ \E p \in Plans : other = [Parked(2) EXCEPT !.plan = p]
    /\ benchmark_data = NoBenchmark
    /\ controller = NoController
    /\ probe = NoProbe

\* the scheduler turns to the other engine
Switch ==
    /\ other # NoOther
    /\ other' = Parked(3 - other.id)
    /\ phase' = other.phase
    /\ cash' = other.cash
    /\ holdings' = other.holdings
    /\ trades' = other.trades
    /\ portfolio_values' = other.portfolio_values
    /\ current_date' = other.current_date
    /\ max_portfolio_value' = other.max_portfolio_value
    /\ max_drawdown' = other.max_drawdown
    /\ all_dates' = other.all_dates
    /\ symbol_order' = other.symbol_order
    /\ today' = other.today
    /\ todo' = other.todo
    /\ last_close' = other.last_close
    /\ result' = other.result
    /\ plan' = other.plan
    /\ UNCHANGED <<probe, manager, restarted, benchmark_data, controller>>

TwoNext ==
    \/ Switch
    \/ (phase = "INITIALIZED" /\ RunBacktest(<<"A">>, Len(plan)))
    \/ (phase = "RUNNING" /\ current_date < Len(plan)
           /\ ProcessTradingDay(plan[current_date + 1]))
    \/ ProcessTradingSignal
    \/ Finish

TwoSpec == TwoInit /\ [][TwoNext]_vars

RECURSIVE SoloSignals(_, _, _, _, _)
\* _process_trading_signals over the symbols the gate let through
SoloSignals(self, symbols, rows, pm, date) ==
    IF symbols = <<>> THEN self
    ELSE SoloSignals(process_trading_signal(self, Head(symbols), rows, pm, date),
                     Tail(symbols), rows, pm, date)

\* _process_trading_day on the run state e with its own manager e.manager
SoloDay(e, order, rows, date) ==
    LET self == [cash |-> e.cash, holdings |-> e.holdings, trades |-> e.trades]
        portfolio_value == calculate_portfolio_value(self, order, rows)
        peak == update_max_portfolio_value(e.max_portfolio_value, portfolio_value)
        pm == pm_after_risk_control(e.manager, portfolio_value)
        after == SoloSignals(self, gated_symbols(e.manager, portfolio_value, order),
                             rows, pm, date)
    IN  [cash |-> after.cash, holdings |-> after.holdings, trades |-> after.trades,
         portfolio_values |-> Append(e.portfolio_values,
             [date |-> date, portfolio_value |-> portfolio_value,
              cash |-> e.cash, holdings_value |-> portfolio_value - e.cash]),
         max_portfolio_value |-> peak,
         max_drawdown |-> update_max_drawdown(e.max_drawdown, peak, portfolio_value),
         manager |-> pm]

RECURSIVE SoloRun(_, _, _)
\* the run states of a run made alone, with a manager no other run uses: after
\* reset_state and after each of the first n dates
SoloRun(rows_by_date, order, n) ==
    IF n = 0
    THEN <<[cash |-> initial_cash, holdings |-> EmptyMap, trades |-> <<>>,
            portfolio_values |-> <<>>, max_portfolio_value |-> initial_cash,
            max_drawdown |-> [num |-> 0, den |-> 1], manager |-> position_manager]>>
    ELSE LET before == SoloRun(rows_by_date, order, n - 1)
         IN  Append(before, SoloDay(Last(before), order, rows_by_date[n], n))

---------------------------------------------------------------------------
\* Calls of the pure PositionManager methods on enumerated arguments

MaxProbeCapital == 1200

HighCapital == 17500

MaxProbeLots == 40

MaxProbePrice == 20

\* a tenth of a yuan
CapitalStep == MoneyUnit \div 10

ProbeCapitals ==
    {k * CapitalStep : k \in 0..MaxProbeCapital}
    \cup {HighCapital * MoneyUnit + k * CapitalStep : k \in 0..MaxProbeCapital}

SizeProbes ==
    [kind : {"size"}, capital : ProbeCapitals, price : {PriceUnit, 2 * PriceUnit},
     strength : {0, 50, 100}, ratio : {50, 95, 100},
     done : {FALSE}, shares : {0}]

CostProbes ==
    [kind : {"cost"}, shares : {k * 50 : k \in 0..MaxProbeLots},
     price : {k * PriceUnit : k \in 0..MaxProbePrice}, done : {FALSE}, buy_cost : {0}, sell_cost : {0}]

PureInit ==
    /\ phase = "INITIALIZED"
    /\ cash = initial_cash
    /\ holdings = EmptyMap
    /\ trades = <<>>
    /\ portfolio_values = <<>>
    /\ current_date = 0
    /\ max_portfolio_value = initial_cash
    /\ max_drawdown = [num |-> 0, den |-> 1]
    /\ all_dates = <<>>
    /\ symbol_order = <<>>
    /\ today = EmptyMap
    /\ todo = <<>>
    /\ last_close = EmptyMap
    /\ result = NoResult
    /\ manager = position_manager
    /\ restarted = FALSE
    /\ plan = <<>>
    /\ other = NoOther
    /\ benchmark_data = NoBenchmark
    /\ controller = NoController
    /\ probe \in SizeProbes \cup CostProbes

\* PositionManager(initial_cash, max_position_ratio = ratio).calculate_position_size
CallPositionSize ==
    /\ probe.kind = "size"
    /\ ~probe.done
    /\ probe' = [probe EXCEPT
           !.done = TRUE,
           !.shares = calculate_position_size(
                          [initial_cash       |-> initial_cash,
                           max_drawdown       |-> DefaultMaxDrawdown,
                           max_position_ratio |-> probe.ratio],
                          probe.capital, probe.price, probe.strength)]
    /\ UNCHANGED engine_vars
    /\ UNCHANGED world_vars

\* calculate_trade_cost for a buy and for a sell of the same shares and price
CallTradeCost ==
    /\ probe.kind = "cost"
    /\ ~probe.done
    /\ probe' = [probe EXCEPT
           !.done = TRUE,
           !.buy_cost = calculate_trade_cost(probe.shares, probe.price, TRUE),
           !.sell_cost = calculate_trade_cost(probe.shares, probe.price, FALSE)]
    /\ UNCHANGED engine_vars
    /\ UNCHANGED world_vars

PureNext == CallPositionSize \/ CallTradeCost

PureSpec == PureInit /\ [][PureNext]_vars

---------------------------------------------------------------------------
\* The risk gate called on enumerated arguments, beside the engine's own calls

MaxProbeValue == 1500

RiskProbes ==
    [kind : {"risk"}, initial : {1000, 1200}, ceiling : {10, 25, 100},
     value : 0..MaxProbeValue, done : {FALSE}, verdict : {FALSE}]

GateInit ==
    /\ phase = "INITIALIZED"
    /\ cash = initial_cash
    /\ holdings = EmptyMap
    /\ trades = <<>>
    /\ portfolio_values = <<>>
    /\ current_date = 0
    /\ max_portfolio_value = initial_cash
    /\ max_drawdown = [num |-> 0, den |-> 1]
    /\ all_dates = <<>>
    /\ symbol_order = <<>>
    /\ today = EmptyMap
    /\ todo = <<>>
    /\ last_close = EmptyMap
    /\ result = NoResult
    /\ manager = position_manager
    /\ restarted = FALSE
    /\ plan = <<>>
    /\ other = NoOther
    /\ benchmark_data = NoBenchmark
    /\ controller = NoController
    /\ probe \in RiskProbes \cup {NoProbe}

\* PositionManager(initial, max_drawdown = ceiling).check_risk_control(value)
CallRiskControl ==
    /\ probe.kind = "risk"
    /\ ~probe.done
    /\ probe' = [probe EXCEPT
           !.done = TRUE,
           !.verdict = check_risk_control(
                           [initial_cash       |-> probe.initial,
                            max_drawdown       |-> probe.ceiling,
                            max_position_ratio |-> DefaultMaxPositionRatio],
                           probe.value)]
    /\ UNCHANGED engine_vars
    /\ UNCHANGED world_vars

\* either the method is called on its own, or the engine runs and calls it
GateNext ==
    \/ CallRiskControl
    \/ (probe = NoProbe /\ Next)

GateSpec == GateInit /\ [][GateNext]_vars

---------------------------------------------------------------------------
\* _get_all_trading_dates called on enumerated frames, beside the engine's run

MaxIndexLen == 2

\* a frame's index: dates of the calendar in any order, repeats allowed
Indexes == UNION {[1..k -> 1..MaxDates] : k \in 0..MaxIndexLen}

DateProbes ==
    [kind : {"dates"}, indexes : Indexes \X Indexes, done : {FALSE},
     dates : {<<>>}]

DateInit ==
    /\ phase = "INITIALIZED"
    /\ cash = initial_cash
    /\ holdings = EmptyMap
    /\ trades = <<>>
    /\ portfolio_values = <<>>
    /\ current_date = 0
    /\ max_portfolio_value = initial_cash
    /\ max_drawdown = [num |-> 0, den |-> 1]
    /\ all_dates = <<>>
    /\ symbol_order = <<>>
    /\ today = EmptyMap
    /\ todo = <<>>
    /\ last_close = EmptyMap
    /\ result = NoResult
    /\ manager = position_manager
    /\ restarted = FALSE
    /\ plan = <<>>
    /\ other = NoOther
    /\ benchmark_data = NoBenchmark
    /\ controller = NoController
    /\ probe \in DateProbes \cup {NoProbe}

CallGetAllTradingDates ==
    /\ probe.kind = "dates"
    /\ ~probe.done
    /\ probe' = [probe EXCEPT
           !.done = TRUE,
           !.dates = get_all_trading_dates(probe.indexes)]
    /\ UNCHANGED engine_vars
    /\ UNCHANGED world_vars

\* either the method is called on its own, or the engine runs over the dates
\* it returned, numbered by their rank
DateNext ==
    \/ CallGetAllTradingDates
    \/ (probe = NoProbe /\ Next)

DateSpec == DateInit /\ [][DateNext]_vars

---------------------------------------------------------------------------
\* Properties

\* a ProcessTradingDay step: one snapshot is appended
DayStep == Len(portfolio_values') = Len(portfolio_values) + 1

\* a ProcessTradingSignal step and the row it handles
SignalStep == phase = "RUNNING" /\ todo # <<>> /\ todo' = Tail(todo)

RECURSIVE LastKnownValue(_, _, _)
\* sum over the symbols of S of shares * last known close
LastKnownValue(S, h, closes) ==
    IF S = {} THEN 0
    ELSE LET symbol == CHOOSE s \in S : TRUE
         IN  TradeValue(h[symbol], closes[symbol]) * MoneyUnit
             + LastKnownValue(S \ {symbol}, h, closes)

TradesOn(symbol, date) ==
    {i \in DOMAIN trades : trades[i].symbol = symbol /\ trades[i].date = date}

\* the portfolio value below which the gate's drawdown exceeds the ceiling:
\* (initial - v) / initial > m / 100  iff  v < initial - initial * m / 100
VetoBelow ==
    initial_cash - DefaultMaxDrawdown * InitialCash * (MoneyUnit \div 100)

\* C1 (cash conservation): the snapshot appended for a date records
\* cash + the sum over all held instruments of shares x last known close,
\* the close of the date when the instrument has a bar on it and its most
\* recent earlier close when it has none.
C1_CashConservation ==
    [][DayStep =>
          Last(portfolio_values').portfolio_value
              = cash + LastKnownValue(DOMAIN holdings, holdings, last_close')]_vars

\* C2 (affordability): every BUY record appended to the ledger has
\* shares x price + trade cost <= the cash held just before that order.
C2_Affordability ==
    [][(Len(trades') = Len(trades) + 1 /\ Last(trades').action = "BUY") =>
          TradeValue(Last(trades').shares, Last(trades').price) * MoneyUnit
              + Last(trades').trade_cost <= cash]_vars

C2_Witness ==
    \E i \in DOMAIN trades :
        /\ trades[i].action = "BUY"
        /\ trades[i].shares > 0
        /\ trades[i].cash_after < initial_cash

\* C3 (at most one position): a BUY signal for an instrument whose holding is
\* non-zero leaves holdings, cash and the ledger unchanged.
C3_NoAveragingIn ==
    [][(/\ SignalStep
        /\ Head(todo) \in DOMAIN today
        /\ today[Head(todo)].signal = 1
        /\ Holding(holdings, Head(todo)) # 0)
       => UNCHANGED <<cash, holdings, trades>>]_vars

\* a BUY row of the first symbol has just been handled while the symbol was held
C3_Witness ==
    /\ phase = "RUNNING"
    /\ Len(symbol_order) = 2
    /\ Len(todo) = 1
    /\ symbol_order[1] \in DOMAIN today
    /\ today[symbol_order[1]].signal = 1
    /\ today[symbol_order[1]].signal_strength = 50
    /\ Holding(holdings, symbol_order[1]) > 0
    /\ TradesOn(symbol_order[1], current_date) = {}
    /\ cash > 400 * MoneyUnit

\* C4 (no short positions): every holding is >= 0 in every reachable state, and
\* a SELL signal for an instrument that is not held (holding zero, or never
\* bought) leaves cash, holdings and the ledger unchanged.
C4_NoShort ==
    /\ [](\A s \in DOMAIN holdings : holdings[s] >= 0)
    /\ [][(/\ SignalStep
           /\ Head(todo) \in DOMAIN today
           /\ today[Head(todo)].signal = -1
           /\ Holding(holdings, Head(todo)) = 0)
          => UNCHANGED <<cash, holdings, trades>>]_vars

\* a SELL row of the first symbol has just been handled while it was not held
C4_Witness ==
    /\ phase = "RUNNING"
    /\ Len(symbol_order) = 2
    /\ Len(todo) = 1
    /\ symbol_order[1] \in DOMAIN today
    /\ today[symbol_order[1]].signal = -1
    /\ Holding(holdings, symbol_order[1]) = 0
    /\ TradesOn(symbol_order[1], current_date) = {}
    /\ trades # <<>>

\* C5 (drawdown monotonicity): within a run the running max drawdown never
\* decreases, and the running peak never decreases and is never below the
\* initial capital.
C5_DrawdownMonotone ==
    [][phase = "RUNNING" =>
          /\ ~FracGT(max_drawdown, max_drawdown')
          /\ max_portfolio_value' >= max_portfolio_value
          /\ max_portfolio_value' >= initial_cash]_vars

\* the drawdown of the latest date is below the running max drawdown
C5_Witness ==
    /\ phase = "RUNNING"
    /\ Len(portfolio_values) >= 2
    /\ max_drawdown.num > 0
    /\ FracGT(max_drawdown,
              [num |-> max_portfolio_value - Last(portfolio_values).portfolio_value,
               den |-> max_portfolio_value])

\* C6 (sizer affordability): for capital >= 0, price > 0, strength in [0,1] and
\* position ratio in (0,1], a positive quantity q returned by the sizer has
\* q x price + cost(q, price, buy) <= capital.
C6_SizerAffordable ==
    (probe.kind = "size" /\ probe.done /\ probe.shares > 0) =>
        TradeValue(probe.shares, probe.price) * MoneyUnit
            + calculate_trade_cost(probe.shares, probe.price, TRUE) <= probe.capital

\* a positive size from the whole capital at full strength, one lot below the capital
C6_Witness ==
    /\ probe.kind = "size"
    /\ probe.done
    /\ probe.ratio = 100
    /\ probe.strength = 100
    /\ probe.shares > 0
    /\ TradeValue(probe.shares + LotSize, probe.price) * MoneyUnit > probe.capital

\* C7 (cost model): cost = max(value x commission rate, minimum commission)
\* + value x transfer fee rate + (value x exit tax rate on a sell, 0 on a buy);
\* it is >= 0 and a sell never costs less than a buy of the same shares and price.
C7_CostModel ==
    (probe.kind = "cost" /\ probe.done) =>
        LET value == TradeValue(probe.shares, probe.price)
            floor == min_commission * MoneyUnit
            commission == IF value * commission_rate > floor
                          THEN value * commission_rate ELSE floor
        IN  /\ probe.buy_cost = commission + value * transfer_fee
            /\ probe.sell_cost = commission + value * transfer_fee + value * stamp_tax
            /\ probe.buy_cost >= 0
            /\ probe.sell_cost >= probe.buy_cost

\* a sell above the commission floor
C7_Witness ==
    /\ probe.kind = "cost"
    /\ probe.done
    /\ TradeValue(probe.shares, probe.price) * commission_rate > min_commission * MoneyUnit
    /\ probe.sell_cost > probe.buy_cost

\* C8 (risk gate verdict): check_risk_control(value) is false exactly when
\* (initial capital - value) / initial capital > ceiling and true otherwise,
\* equality included; the call changes no state and its verdict depends on the
\* value alone: in a run the gate vetoes a date exactly when that date's
\* snapshot is past the ceiling, whatever happened on earlier dates.
C8_RiskGateVerdict ==
    /\ []((probe.kind = "risk" /\ probe.done) =>
             probe.verdict
                 = ~((probe.initial - probe.value) * 100 > probe.ceiling * probe.initial))
    /\ [][(probe.kind = "risk" /\ probe'.done) => UNCHANGED engine_vars]_vars
    /\ [][DayStep =>
             /\ (todo' = <<>>) = (Last(portfolio_values').portfolio_value < VetoBelow)
             /\ (todo' # <<>> => todo' = symbol_order)
             /\ UNCHANGED <<cash, holdings, trades>>]_vars

\* the gate called with a drawdown exactly at the ceiling
C8_Witness ==
    /\ probe.kind = "risk"
    /\ probe.done
    /\ (probe.initial - probe.value) * 100 = probe.ceiling * probe.initial
    /\ probe.value > 0
    /\ probe.verdict

\* a vetoed date followed by a date within the ceiling on which an order executed
VetoThenTrade ==
    \E i, j \in DOMAIN portfolio_values :
        /\ i < j
        /\ portfolio_values[i].portfolio_value < VetoBelow
        /\ portfolio_values[j].portfolio_value >= VetoBelow
        /\ \E k \in DOMAIN trades : trades[k].date = portfolio_values[j].date

\* C9 (gate veto): a date on which the gate returns false has its snapshot
\* recorded and no order executed: no trade carries that date, and the cash at
\* the next snapshot (or now, if it is the latest date) is the cash at its own.
C9_GateVeto ==
    \A i \in DOMAIN portfolio_values :
        ~check_risk_control(position_manager, portfolio_values[i].portfolio_value)
        => /\ \A k \in DOMAIN trades : trades[k].date # portfolio_values[i].date
           /\ IF i < Len(portfolio_values)
              THEN portfolio_values[i + 1].cash = portfolio_values[i].cash
              ELSE cash = portfolio_values[i].cash /\ todo = <<>>

\* a vetoed date with a later date processed, while an instrument is held
C9_Witness ==
    \E i \in DOMAIN portfolio_values :
        /\ ~check_risk_control(position_manager, portfolio_values[i].portfolio_value)
        /\ i < Len(portfolio_values)
        /\ \E s \in DOMAIN holdings : holdings[s] > 0

\* C10 (engine lifecycle): an engine goes INITIALIZED -> RUNNING -> COMPLETED
\* or FAILED and never returns to RUNNING: a run starts only on an instance
\* that has not run before.
C10_Lifecycle ==
    [][(phase' = "RUNNING" /\ phase # "RUNNING") => phase = "INITIALIZED"]_vars

\* a step that enters run_backtest: the engine was not running and now runs or
\* has failed for want of dates
RunStart == phase # "RUNNING" /\ phase' \in {"RUNNING", "FAILED"}

\* the run state reset_state leaves
FreshRunState ==
    /\ cash = initial_cash
    /\ holdings = EmptyMap
    /\ trades = <<>>
    /\ portfolio_values = <<>>
    /\ max_portfolio_value = initial_cash
    /\ max_drawdown = [num |-> 0, den |-> 1]

\* C11 (run-state reset): every run_backtest call, the first on an instance or
\* a later one, starts from cash = initial capital, empty holdings, empty
\* ledger, empty equity curve, peak = initial capital and max drawdown 0, and
\* the run state stays so until the first date is processed: nothing of an
\* earlier run on the same instance is left in it.
C11_RunStateReset ==
    /\ [][RunStart => FreshRunState']_vars
    /\ []((phase = "RUNNING" /\ current_date = 0) =>
              FreshRunState /\ todo = <<>> /\ today = EmptyMap
                            /\ last_close = EmptyMap)

\* a second run on the same instance, before its first date
C11_Witness ==
    /\ restarted
    /\ phase = "RUNNING"
    /\ current_date = 0
    /\ Len(all_dates) = 2
    /\ FreshRunState

Ascending(seq) == \A i, j \in DOMAIN seq : i < j => seq[i] < seq[j]

NonDecreasing(seq) == \A i, j \in DOMAIN seq : i < j => seq[i] <= seq[j]

IsPrefix(s, t) == Len(s) <= Len(t) /\ \A i \in DOMAIN s : s[i] = t[i]

\* C12 (date order): the dates of a run are the union of the frames' dates,
\* each once, in strictly ascending order; each date is processed once, in that
\* order; the equity curve only grows within a run, its snapshots carry the
\* dates processed so far in order, one per date once the run has completed;
\* the dates of the ledger are non-decreasing.
C12_DateOrder ==
    /\ []((probe.kind = "dates" /\ probe.done) =>
             /\ Ascending(probe.dates)
             /\ Range(probe.dates)
                    = Range(probe.indexes[1]) \cup Range(probe.indexes[2]))
    /\ [](Ascending(all_dates))
    /\ [](/\ Len(portfolio_values) <= Len(all_dates)
          /\ \A i \in DOMAIN portfolio_values :
                 portfolio_values[i].date = all_dates[i]
          /\ current_date = Len(portfolio_values)
          /\ NonDecreasing([i \in DOMAIN trades |-> trades[i].date]))
    /\ [](phase = "COMPLETED" => Len(portfolio_values) = Len(all_dates))
    /\ [][RunStart \/ phase' = "INITIALIZED"
             \/ IsPrefix(portfolio_values, portfolio_values')]_vars
    /\ [][DayStep => current_date' = all_dates[Len(portfolio_values) + 1]]_vars

\* frames whose dates overlap and arrive out of order
C12_Witness ==
    /\ probe.kind = "dates"
    /\ probe.done
    /\ probe.indexes[1] = <<3, 1>>
    /\ probe.indexes[2] = <<2, 3>>
    /\ probe.dates = <<1, 2, 3>>

\* the rank of an instrument identifier in ascending identifier order
SymbolRank(symbol) == IF symbol = "A" THEN 1 ELSE 2

\* C13 (deterministic tie-breaking): the orders of one date are executed in
\* ascending instrument-identifier order, whatever the order in which the
\* instruments were supplied: ledger records of the same date appear in
\* ascending identifier order.
C13_TieBreaking ==
    \A i, j \in DOMAIN trades :
        (i < j /\ trades[i].date = trades[j].date)
            => SymbolRank(trades[i].symbol) <= SymbolRank(trades[j].symbol)

\* the holdings of every instrument but one are what they were
OthersUnchanged(symbol) ==
    \A s \in Symbols \ {symbol} : Holding(holdings', s) = Holding(holdings, s)

\* C14 (BUY execution): a BUY row for an instrument whose holding is zero sizes
\* q from the current cash; if q = 0 or q x price + cost(q, price, buy) > cash
\* then cash, holdings and ledger are unchanged; otherwise cash decreases by
\* exactly q x price + cost, the holding becomes q, exactly one record, a BUY
\* of q at the price, is appended, and no other holding changes.
C14_BuyExecution ==
    [][(/\ SignalStep
        /\ Head(todo) \in DOMAIN today
        /\ today[Head(todo)].signal = 1
        /\ Holding(holdings, Head(todo)) = 0)
       => LET symbol == Head(todo)
              price == today[symbol].close
              q == calculate_position_size(position_manager, cash, price,
                                           today[symbol].signal_strength)
              cost == calculate_trade_cost(q, price, TRUE)
              total == TradeValue(q, price) * MoneyUnit + cost
          IN  IF q = 0 \/ total > cash
              THEN UNCHANGED <<cash, holdings, trades>>
              ELSE /\ cash' = cash - total
                   /\ Holding(holdings', symbol) = q
                   /\ OthersUnchanged(symbol)
                   /\ Len(trades') = Len(trades) + 1
                   /\ IsPrefix(trades, trades')
                   /\ Last(trades').action = "BUY"
                   /\ Last(trades').symbol = symbol
                   /\ Last(trades').shares = q
                   /\ Last(trades').price = price
                   /\ Last(trades').date = current_date]_vars

\* a BUY has just executed for the second instrument while the first is held
C14_Witness ==
    /\ Len(trades) >= 2
    /\ Last(trades).action = "BUY"
    /\ Last(trades).cash_after = cash
    /\ Holding(holdings, Last(trades).symbol) = Last(trades).shares
    /\ \E s \in Symbols \ {Last(trades).symbol} : Holding(holdings, s) > 0

\* C15 (SELL execution): a SELL row for an instrument with holding q > 0 sells
\* the whole holding at the date's close: cash increases by exactly
\* q x price - cost(q, price, sell), the holding becomes 0, exactly one
\* record, a SELL of q at the price, is appended, and no other holding changes.
C15_SellExecution ==
    [][(/\ SignalStep
        /\ Head(todo) \in DOMAIN today
        /\ today[Head(todo)].signal = -1
        /\ Holding(holdings, Head(todo)) > 0)
       => LET symbol == Head(todo)
              price == today[symbol].close
              q == Holding(holdings, symbol)
          IN  /\ cash' = cash + TradeValue(q, price) * MoneyUnit
                               - calculate_trade_cost(q, price, FALSE)
              /\ Holding(holdings', symbol) = 0
              /\ OthersUnchanged(symbol)
              /\ Len(trades') = Len(trades) + 1
              /\ IsPrefix(trades, trades')
              /\ Last(trades').action = "SELL"
              /\ Last(trades').symbol = symbol
              /\ Last(trades').shares = q
              /\ Last(trades').price = price
              /\ Last(trades').date = current_date]_vars

\* a holding has just been sold whole while the other instrument is held
C15_Witness ==
    /\ trades # <<>>
    /\ Last(trades).action = "SELL"
    /\ Last(trades).shares > 0
    /\ Last(trades).cash_after = cash
    /\ Holding(holdings, Last(trades).symbol) = 0
    /\ \E s \in Symbols \ {Last(trades).symbol} : Holding(holdings, s) > 0

\* C16 (DataFault on bad prices): a run that consumed a non-positive close is
\* aborted and never returns success = true: when a run has completed with
\* success, the latest close it read for every instrument is positive.
C16_DataFault ==
    (phase = "COMPLETED" /\ result.success) =>
        \A s \in DOMAIN last_close : last_close[s] > 0

\* the failure result: no success, an error message, the initial capital as
\* final value, zero return, drawdown and days, and nothing of the run itself
IsFailureResult(res) ==
    /\ res.returned
    /\ ~res.success
    /\ "error" \in DOMAIN res
    /\ res.summary.final_value = initial_cash
    /\ res.summary.total_return = 0
    /\ res.summary.max_drawdown.num = 0
    /\ res.summary.trading_days = 0
    /\ res.trade_statistics.total_trades = 0
    /\ DOMAIN res \cap {"portfolio_history", "trades", "holdings"} = {}

\* C17 (structured failure, never partial): run_backtest always returns a
\* result: a run that has ended has returned one, and a run that an exception
\* ended (no dates, or an exception leaving the per-date loop) has returned
\* success = false with an error message, final value = initial capital, zero
\* return, zero trading days, and neither the equity curve nor the ledger of
\* the interrupted run.
C17_StructuredFailure ==
    /\ [](result.returned = (phase \in {"COMPLETED", "FAILED"}))
    /\ [](phase = "FAILED" => IsFailureResult(result))
    /\ [](phase = "COMPLETED" => result.success)
    /\ [][(phase = "RUNNING" /\ phase' # "RUNNING")
             => /\ phase' \in {"COMPLETED", "FAILED"}
                /\ result'.returned]_vars

\* a run interrupted on its second date or later, after it had traded
C17_Witness ==
    /\ phase = "FAILED"
    /\ result.error = "signal"
    /\ trades # <<>>
    /\ Len(portfolio_values) >= 2
    /\ cash < initial_cash
    /\ IsFailureResult(result)

\* C18 (empty input): a run whose signal source yields no date, the mapping
\* being empty or every series empty, ends at once in the 'no trading dates'
\* failure: success = false, no date processed, no trade recorded, no report.
C18_EmptyInput ==
    /\ [][(RunStart /\ all_dates' = <<>>)
             => /\ phase' = "FAILED"
                /\ IsFailureResult(result')
                /\ result'.error = "no trading dates"]_vars
    /\ []((phase # "INITIALIZED" /\ all_dates = <<>>)
             => /\ phase = "FAILED"
                /\ result.error = "no trading dates"
                /\ current_date = 0
                /\ portfolio_values = <<>>
                /\ trades = <<>>)

\* a run over a non-empty mapping whose series are all empty has failed
C18_Witness ==
    /\ phase = "FAILED"
    /\ symbol_order # <<>>
    /\ all_dates = <<>>
    /\ result.error = "no trading dates"
    /\ portfolio_values = <<>>

\* the capital and the fractions of a manager are in their ranges
ValidConfig(pm) ==
    /\ pm.initial_cash > 0
    /\ pm.max_drawdown > 0 /\ pm.max_drawdown <= 100
    /\ pm.max_position_ratio > 0 /\ pm.max_position_ratio <= 100

\* C19 (configuration validation): a run configured with an invalid capital or
\* fraction (max drawdown or max position fraction outside (0,1]) is rejected
\* before it starts: no date is processed, no run state is created or changed.
C19_ConfigValidation ==
    ~ValidConfig(manager) =>
        /\ phase \in {"INITIALIZED", "FAILED"}
        /\ current_date = 0
        /\ portfolio_values = <<>>
        /\ trades = <<>>

\* what a run produced: ledger, equity curve, final cash and holdings, drawdown
Produced(e) ==
    [trades |-> e.trades, portfolio_values |-> e.portfolio_values,
     cash |-> e.cash, holdings |-> e.holdings, max_drawdown |-> e.max_drawdown]

\* C20 (independent runs): two runs, each on its own engine, that share one
\* position manager and whose steps interleave in any order each produce the
\* ledger, equity curve, cash, holdings and max drawdown they produce when run
\* alone; a step of one run changes nothing of the other engine, and no step
\* changes the shared manager.
C20_IndependentRuns ==
    /\ [](phase = "COMPLETED" =>
             Produced(Parked(0))
                 = Produced(Last(SoloRun(plan, symbol_order, Len(plan)))))
    /\ [](other.phase = "COMPLETED" =>
             Produced(other)
                 = Produced(Last(SoloRun(other.plan, other.symbol_order,
                                         Len(other.plan)))))
    /\ [][other'.id = other.id => other' = other]_vars
    /\ [][manager' = manager]_vars

\* both runs have completed, one with a gain and one that sold at a loss
C20_Witness ==
    /\ phase = "COMPLETED"
    /\ other.phase = "COMPLETED"
    /\ plan # other.plan
    /\ cash < initial_cash
    /\ Len(trades) = 2
    /\ Len(other.trades) = 1
    /\ Last(other.portfolio_values).portfolio_value > initial_cash

---------------------------------------------------------------------------
\* Runs that are handed a benchmark frame

\* what a caller can pass as benchmark_data: nothing, an empty frame, closes on
\* any dates (a date past MaxDates is one the signals never have), or a frame
\* with dates but no close column
Benchmarks ==
    {NoBenchmark, [index |-> {}, close |-> EmptyMap]}
    \cup {[index |-> D, close |-> [d \in D |-> (30 + d) * PriceUnit]] :
              D \in (SUBSET (1..(MaxDates + 1))) \ {{}}}
    \cup {[index |-> {1}, open |-> [d \in {1} |-> 30 * PriceUnit]]}

BenchRows ==
    {[close |-> 2 * PriceUnit, signal |-> 1, signal_strength |-> 50],
     [close |-> 3 * PriceUnit, signal |-> -1, signal_strength |-> 100]}

BenchInit ==
    /\ phase = "INITIALIZED"
    /\ cash = initial_cash
    /\ holdings = EmptyMap
    /\ trades = <<>>
    /\ portfolio_values = <<>>
    /\ current_date = 0
    /\ max_portfolio_value = initial_cash
    /\ max_drawdown = [num |-> 0, den |-> 1]
    /\ all_dates = <<>>
    /\ symbol_order = <<>>
    /\ today = EmptyMap
    /\ todo = <<>>
    /\ last_close = EmptyMap
    /\ result = NoResult
    /\ manager = position_manager
    /\ restarted = FALSE
    /\ plan = <<>>
    /\ other = NoOther
    /\ benchmark_data \in Benchmarks
    /\ controller = NoController
    /\ probe = NoProbe

BenchNext ==
    \/ Construct
    \/ \E n \in 0..MaxDates : RunBacktest(<<"A">>, n)
    \/ \E rows \in [{"A"} -> BenchRows] : ProcessTradingDay(rows)
    \/ ProcessTradingSignal
    \/ Finish

BenchSpec == BenchInit /\ [][BenchNext]_vars

\* C21 (benchmark comparison degrades softly): a run that reaches its report
\* returns success = true whatever the benchmark is; with no benchmark, an
\* empty one, or one sharing no date with the equity curve the comparison is
\* available = false with a reason; with a series of closes sharing at least
\* one date it is available and tracking_days is the number of shared dates.
C21_BenchmarkComparison ==
    (phase = "COMPLETED") =>
        LET comparison == result.benchmark_comparison
            shared == IF benchmark_data = NoBenchmark THEN {}
                      ELSE {d \in benchmark_data.index :
                                \E i \in DOMAIN result.portfolio_history :
                                    result.portfolio_history[i].date = d}
        IN  /\ result.success
            /\ (shared = {}) =>
                   (~comparison.available /\ "reason" \in DOMAIN comparison)
            /\ (shared # {} /\ "close" \in DOMAIN benchmark_data) =>
                   (comparison.available
                    /\ comparison.tracking_days = Cardinality(shared))

\* a completed run whose benchmark shares some of its dates with the curve and
\* has a date the curve lacks
C21_Witness ==
    /\ phase = "COMPLETED"
    /\ result.benchmark_comparison.available
    /\ result.benchmark_comparison.tracking_days < Len(result.portfolio_history)
    /\ result.benchmark_comparison.tracking_days < Cardinality(benchmark_data.index)

---------------------------------------------------------------------------
\* Trade statistics

RECURSIVE MatchedPairs(_, _)
\* the BUY-then-SELL pairs of one symbol's records in chronological order: a
\* SELL closes the BUY that is open, if one is
MatchedPairs(symbol_trades, open) ==
    IF symbol_trades = <<>> THEN 0
    ELSE IF Head(symbol_trades).action = "BUY"
    THEN MatchedPairs(Tail(symbol_trades), TRUE)
    ELSE (IF open THEN 1 ELSE 0) + MatchedPairs(Tail(symbol_trades), FALSE)

RECURSIVE RoundTrips(_, _)
RoundTrips(ledger, S) ==
    IF S = {} THEN 0
    ELSE LET symbol == CHOOSE x \in S : TRUE
         IN  MatchedPairs(TradesOfSymbol(ledger, symbol), FALSE)
                 + RoundTrips(ledger, S \ {symbol})

\* C22 (round-trip counting): after any completed run the reported number of
\* completed round-trips is the number of matched BUY-then-SELL pairs per
\* symbol in chronological order, the profitable round-trips never exceed it
\* and the win rate lies in [0, 100].
C22_RoundTrips ==
    (phase = "COMPLETED") =>
        LET stats == result.trade_statistics
        IN  /\ "completed_trades" \in DOMAIN stats
            /\ stats.completed_trades = RoundTrips(result.trades, Symbols)
            /\ stats.profitable_trades <= stats.completed_trades
            /\ stats.win_rate.num >= 0
            /\ stats.win_rate.num <= 100 * stats.win_rate.den

---------------------------------------------------------------------------
\* Refinement of the running drawdown

RECURSIVE PeakUpTo(_, _)
\* max(initial capital, largest snapshot value among the first t snapshots)
PeakUpTo(history, t) ==
    IF t = 0 THEN initial_cash
    ELSE Max(history[t].portfolio_value, PeakUpTo(history, t - 1))

\* the drawdowns of the snapshots, recomputed from the curve alone
Drawdowns(history) ==
    {[num |-> PeakUpTo(history, t) - history[t].portfolio_value,
      den |-> PeakUpTo(history, t)] : t \in DOMAIN history}

\* C23 (running drawdown refines the recomputation): the reported max drawdown
\* is the maximum over the snapshots t of (peak_t - value_t) / peak_t, with
\* peak_t = max(initial capital, largest snapshot value up to t).
C23_DrawdownRefinement ==
    (phase = "COMPLETED") =>
        LET reported == result.summary.max_drawdown
            recomputed == Drawdowns(result.portfolio_history)
        IN  /\ \A d \in recomputed : ~FracGT(d, reported)
            /\ \E d \in recomputed : ~FracGT(reported, d)

\* a completed run whose largest drawdown is measured from a peak above the
\* initial capital
C23_Witness ==
    /\ phase = "COMPLETED"
    /\ Len(result.portfolio_history) = MaxDates
    /\ result.summary.max_drawdown.den > initial_cash
    /\ result.summary.max_drawdown.num > 0

---------------------------------------------------------------------------
\* The equity curve and the summary

\* C24 (first snapshot equals initial capital): the first snapshot of a run is
\* taken before any order, so its portfolio value is the initial capital, its
\* cash the initial capital and its holdings value 0; no record is older than
\* it; and the total return of a completed run, measured from the initial
\* capital, is the return from the curve's first value to its last.
C24_FirstSnapshot ==
    /\ (trades # <<>>) => (portfolio_values # <<>>)
    /\ (portfolio_values # <<>>) =>
           /\ portfolio_values[1].portfolio_value = initial_cash
           /\ portfolio_values[1].cash = initial_cash
           /\ portfolio_values[1].holdings_value = 0
           /\ \A i \in DOMAIN trades : trades[i].date >= portfolio_values[1].date
    /\ (phase = "COMPLETED") =>
           LET curve == result.portfolio_history
           IN  /\ result.summary.total_return.num
                      = Last(curve).portfolio_value - curve[1].portfolio_value
               /\ result.summary.total_return.den = curve[1].portfolio_value

\* a completed run that traded on its first date and ends with a non-zero
\* total return
C24_Witness ==
    /\ phase = "COMPLETED"
    /\ result.trades # <<>>
    /\ result.trades[1].date = result.portfolio_history[1].date
    /\ result.summary.total_return.num # 0

\* C25 (final value matches end state): the summary's final_value is the
\* end-of-run cash plus the end-of-run holdings valued at the last date's
\* close, the proceeds and costs of the orders executed on the last date
\* included.
C25_FinalValue ==
    (phase = "COMPLETED") =>
        result.summary.final_value
            = cash + LastKnownValue({s \in DOMAIN holdings : holdings[s] > 0},
                                    holdings, last_close)

---------------------------------------------------------------------------
\* The ledger

\* a symbol's records strictly alternate BUY, SELL, BUY, ... starting with BUY,
\* and every SELL carries the shares of the BUY before it
Alternates(symbol_trades) ==
    \A i \in DOMAIN symbol_trades :
        IF i % 2 = 1
        THEN symbol_trades[i].action = "BUY"
        ELSE /\ symbol_trades[i].action = "SELL"
             /\ symbol_trades[i].shares = symbol_trades[i - 1].shares

\* C26 (per-instrument ledger alternation): for every symbol the records
\* alternate BUY, SELL, BUY, ... starting with BUY; BUY records outnumber SELL
\* records by 1 exactly when the symbol is held and by 0 otherwise; and each
\* SELL sells the shares of the BUY that precedes it.
C26_LedgerAlternation ==
    \A symbol \in Symbols :
        LET symbol_trades == TradesOfSymbol(trades, symbol)
            buys == Len(TradesOfAction(symbol_trades, "BUY"))
            sells == Len(TradesOfAction(symbol_trades, "SELL"))
        IN  /\ Alternates(symbol_trades)
            /\ buys - sells = (IF Holding(holdings, symbol) # 0 THEN 1 ELSE 0)

\* a symbol bought, sold and bought again while the other symbol traded too
C26_Witness ==
    \E symbol \in Symbols :
        /\ Len(TradesOfSymbol(trades, symbol)) = 3
        /\ Len(trades) > 3
        /\ Holding(holdings, symbol) > 0

---------------------------------------------------------------------------
\* Runs over low-priced symbols: a lot worth less than the minimum commission

\* A is small and falls to 0.01 a share; B is large and keeps its price
PennyRowsA ==
    {[close |-> 40, signal |-> 1, signal_strength |-> 5],
     [close |-> 38, signal |-> 1, signal_strength |-> 100],
     [close |-> 1, signal |-> -1, signal_strength |-> 100]}

PennyRowsB ==
    {[close |-> 9 * PriceUnit, signal |-> 1, signal_strength |-> 100],
     [close |-> 9 * PriceUnit, signal |-> 0, signal_strength |-> 0]}

PennyNext ==
    \/ Construct
    \/ \E n \in 0..(MaxDates + 1) : RunBacktest(<<"A", "B">>, n)
    \/ \E rows \in [Symbols -> PennyRowsA \cup PennyRowsB] :
           /\ rows["A"] \in PennyRowsA
           /\ rows["B"] \in PennyRowsB
           /\ ProcessTradingDay(rows)
    \/ ProcessTradingSignal
    \/ Finish

PennySpec == Init /\ [][PennyNext]_vars

\* C27 (cash never negative): cash >= 0 in every reachable state, whatever
\* sequence of BUY and SELL orders executes at positive prices under the
\* configured fee schedule.
C27_CashNonNegative == cash >= 0

RECURSIVE BalanceAfter(_, _)
\* the initial capital less (trade value + trade cost) of the BUY records and
\* plus (trade value - trade cost) of the SELL records among the first n
BalanceAfter(ledger, n) ==
    IF n = 0 THEN initial_cash
    ELSE LET trade == ledger[n]
         IN  BalanceAfter(ledger, n - 1)
                 + (IF trade.action = "BUY"
                    THEN -(trade.trade_value + trade.trade_cost)
                    ELSE trade.trade_value - trade.trade_cost)

\* C28 (ledger reconciles cash): in every reachable state cash is the initial
\* capital minus the BUY records' (trade value + trade cost) plus the SELL
\* records' (trade value - trade cost); every record's cash_after is the
\* balance right after its trade; and while a run is going the records already
\* in the ledger are neither modified nor removed.
C28_LedgerReconciles ==
    /\ [](/\ cash = BalanceAfter(trades, Len(trades))
          /\ \A i \in DOMAIN trades : trades[i].cash_after = BalanceAfter(trades, i))
    /\ [][(phase = "RUNNING") => IsPrefix(trades, trades')]_vars

\* a ledger of three or more records, a SELL among them, mid-run
C28_Witness ==
    /\ phase = "RUNNING"
    /\ Len(trades) >= 3
    /\ \E i \in DOMAIN trades : trades[i].action = "SELL"
    /\ cash < initial_cash

---------------------------------------------------------------------------
\* The gate's drawdown and the engine's

\* the drawdown the gate measures on a value, from the manager's initial capital
GateDrawdown(pm, value) == [num |-> pm.initial_cash - value, den |-> pm.initial_cash]

\* the dates of the curve on which the gate vetoed
VetoedDates(pm, history) ==
    {t \in DOMAIN history : ~check_risk_control(pm, history[t].portfolio_value)}

\* C29 (gate and reported drawdown are consistent): the manager and the engine
\* sharing the initial capital and the snapshot values being >= 0, on every
\* date the gate's drawdown is <= the engine's drawdown of that date; hence a
\* completed run on which the gate vetoed some date reports a max drawdown
\* strictly above the configured ceiling.
C29_GateConsistent ==
    (manager.initial_cash = initial_cash
     /\ \A t \in DOMAIN portfolio_values : portfolio_values[t].portfolio_value >= 0) =>
        /\ \A t \in DOMAIN portfolio_values :
               ~FracGT(GateDrawdown(manager, portfolio_values[t].portfolio_value),
                       [num |-> PeakUpTo(portfolio_values, t)
                                    - portfolio_values[t].portfolio_value,
                        den |-> PeakUpTo(portfolio_values, t)])
        /\ (phase = "COMPLETED" /\ VetoedDates(manager, result.portfolio_history) # {}) =>
               FracGT(result.summary.max_drawdown,
                      [num |-> manager.max_drawdown, den |-> 100])

\* a completed run with a vetoed date whose value was reached from a peak above
\* the initial capital, the two drawdowns of that date differing
C29_Witness ==
    /\ phase = "COMPLETED"
    /\ \E t \in VetoedDates(manager, result.portfolio_history) :
           PeakUpTo(result.portfolio_history, t) > initial_cash

---------------------------------------------------------------------------
\* QuantTradingBackend.run_complete_backtest (main_controller.py)

\* the phases in the order run_complete_backtest calls them
PhaseOrder == <<"data", "strategy", "backtest">>

\* how a call into a phase can end: its success dictionary, its failure
\* dictionary, or an exception, which the phase's own except turns into a
\* failure dictionary
PhaseOutcomes == {"ok", "failed", "raised"}

phase_result(outcome) ==
    IF outcome = "ok" THEN [success |-> TRUE]
    ELSE [success |-> FALSE, error |-> outcome]

NoResponse == [returned |-> FALSE, raised |-> FALSE, success |-> FALSE]

create_error_response(failed_phase, error_msg) ==
    [returned |-> TRUE, raised |-> FALSE, success |-> FALSE,
     error_phase |-> failed_phase, error_message |-> error_msg]

\* _integrate_results; an exception in it is caught by run_complete_backtest's
\* own except and reported as a system error
integrate_results(raises, results, backtest_result) ==
    IF raises THEN create_error_response("system", "raised")
    ELSE [returned |-> TRUE, raised |-> FALSE, success |-> TRUE,
          data_phase |-> [success |-> results[1].success],
          strategy_phase |-> [success |-> results[2].success],
          backtest_results |-> backtest_result]

\* a controller that goes on to the next phase whatever the phase returned
phase_returned_continuing(c, name, res, next) ==
    [c EXCEPT !.results = Append(@, res), !.pc = next]

\* run_complete_backtest after a phase has returned res: `if not res['success']:
\* return self._create_error_response(...)`, else on to the next phase
phase_returned(c, name, res, next) ==
    IF res.success
    THEN [c EXCEPT !.results = Append(@, res), !.pc = next]
    ELSE [c EXCEPT !.results = Append(@, res), !.pc = "returned",
                   !.response = create_error_response(name, res.error)]

PipelineRows ==
    BenchRows \cup {[close |-> 2 * PriceUnit, signal_strength |-> 50]}

PipelineInit ==
    /\ phase = "INITIALIZED"
    /\ cash = initial_cash
    /\ holdings = EmptyMap
    /\ trades = <<>>
    /\ portfolio_values = <<>>
    /\ current_date = 0
    /\ max_portfolio_value = initial_cash
    /\ max_drawdown = [num |-> 0, den |-> 1]
    /\ all_dates = <<>>
    /\ symbol_order = <<>>
    /\ today = EmptyMap
    /\ todo = <<>>
    /\ last_close = EmptyMap
    /\ result = NoResult
    /\ manager = position_manager
    /\ restarted = FALSE
    /\ plan = <<>>
    /\ other = NoOther
    /\ benchmark_data = NoBenchmark
    /\ controller = [pc |-> "idle", started |-> <<>>, results |-> <<>>,
                     response |-> NoResponse]
    /\ probe = NoProbe

\* a caller calls run_complete_backtest
RunCompleteBacktest ==
    /\ controller.pc \in {"idle", "returned"}
    /\ controller' = [pc |-> "data", started |-> <<>>, results |-> <<>>,
                      response |-> NoResponse]
    /\ UNCHANGED <<engine_vars, probe, manager, restarted, plan, other, benchmark_data>>

\* _execute_data_phase and the test of its result
ExecuteDataPhase(outcome) ==
    /\ controller.pc = "data"
    /\ controller' = phase_returned(
           [controller EXCEPT !.started = Append(@, "data")],
           "data", phase_result(outcome), "strategy")
    /\ UNCHANGED <<engine_vars, probe, manager, restarted, plan, other, benchmark_data>>

\* _execute_strategy_phase and the test of its result
ExecuteStrategyPhase(outcome) ==
    /\ controller.pc = "strategy"
    /\ controller' = phase_returned(
           [controller EXCEPT !.started = Append(@, "strategy")],
           "strategy", phase_result(outcome), "backtest")
    /\ UNCHANGED <<engine_vars, probe, manager, restarted, plan, other, benchmark_data>>

\* _execute_backtest_phase up to run_backtest: execute_backtest validates its
\* inputs and builds a fresh BacktestEngine
ExecuteBacktestPhase(validation) ==
    /\ controller.pc = "backtest"
    /\ IF validation = "ok"
       THEN /\ controller' = [controller EXCEPT !.started = Append(@, "backtest"),
                                                !.pc = "engine"]
            /\ phase' = "INITIALIZED"
            /\ ResetState
            /\ all_dates' = <<>>
            /\ symbol_order' = <<>>
            /\ today' = EmptyMap
            /\ todo' = <<>>
            /\ last_close' = EmptyMap
            /\ result' = NoResult
       ELSE /\ controller' = phase_returned(
                   [controller EXCEPT !.started = Append(@, "backtest")],
                   "backtest", phase_result(validation), "integrate")
            /\ UNCHANGED engine_vars
    /\ restarted' = FALSE
    /\ UNCHANGED <<probe, manager, plan, other, benchmark_data>>

\* execute_backtest after run_backtest has returned, and the controller's test
\* of the phase's result; what follows run_backtest in execute_backtest can raise
ReturnFromBacktestPhase(enhancing) ==
    /\ controller.pc = "engine"
    /\ phase \in {"COMPLETED", "FAILED"}
    /\ controller' = phase_returned(controller, "backtest",
           IF ~result.success THEN [success |-> FALSE, error |-> result.error]
           ELSE phase_result(enhancing), "integrate")
    /\ UNCHANGED <<engine_vars, probe, manager, restarted, plan, other, benchmark_data>>

\* _integrate_results and the return of run_complete_backtest
IntegrateResults(raises) ==
    /\ controller.pc = "integrate"
    /\ controller' = [controller EXCEPT
           !.pc = "returned",
           !.response = integrate_results(raises, controller.results, result)]
    /\ UNCHANGED <<engine_vars, probe, manager, restarted, plan, other, benchmark_data>>

PipelineNext ==
    \/ RunCompleteBacktest
    \/ \E outcome \in PhaseOutcomes : ExecuteDataPhase(outcome)
    \/ \E outcome \in PhaseOutcomes : ExecuteStrategyPhase(outcome)
    \/ \E validation \in PhaseOutcomes : ExecuteBacktestPhase(validation)
    \/ (controller.pc = "engine" /\ phase = "INITIALIZED"
        /\ \E n \in 1..MaxDates : RunBacktest(<<"A">>, n))
    \/ (controller.pc = "engine"
        /\ \E rows \in [{"A"} -> PipelineRows] : ProcessTradingDay(rows))
    \/ (controller.pc = "engine" /\ ProcessTradingSignal)
    \/ (controller.pc = "engine" /\ Finish)
    \/ \E enhancing \in {"ok", "raised"} : ReturnFromBacktestPhase(enhancing)
    \/ \E raises \in BOOLEAN : IntegrateResults(raises)

PipelineSpec == PipelineInit /\ [][PipelineNext]_vars

\* C30 (pipeline short-circuit): run_complete_backtest starts the data, the
\* strategy and the backtest phase in that order; once a phase has reported
\* failure or raised, no later phase is started and the call returns
\* success = false naming that phase; it returns success = true only when all
\* three phases succeeded; and it never raises to its caller.
C30_PipelineShortCircuit ==
    /\ IsPrefix(controller.started, PhaseOrder)
    /\ Len(controller.results) <= Len(controller.started)
    /\ \A i \in DOMAIN controller.results :
           i < Len(controller.started) => controller.results[i].success
    /\ ~controller.response.raised
    /\ (controller.pc = "returned") =>
           /\ controller.response.returned
           /\ Len(controller.results) = Len(controller.started)
           /\ controller.response.success =>
                  /\ controller.started = PhaseOrder
                  /\ \A i \in DOMAIN controller.results : controller.results[i].success
           /\ (\E i \in DOMAIN controller.results : ~controller.results[i].success) =>
                  /\ ~controller.response.success
                  /\ controller.response.error_phase = Last(controller.started)

\* a call that returned after the strategy phase failed, the backtest phase
\* never started
C30_Witness ==
    /\ controller.pc = "returned"
    /\ controller.started = <<"data", "strategy">>
    /\ ~controller.response.success
    /\ controller.response.error_phase = "strategy"

=============================================================================
